---- MODULE Spec2Model ----
(***************************************************************************)
(* Model of the TripleCaptain optimisation core:                           *)
(*   backend/app/optimization/transfer_planner.py  (TransferPlanner)       *)
(*   backend/app/optimization/squad_optimizer.py   (SquadOptimizer)        *)
(*                                                                         *)
(* Numbers.  The code works on floats.  The model keeps them as integers:  *)
(* predicted_points in tenths of a point, start_probability in tenths, so  *)
(* predicted_points * start_probability is an integer number of hundredths *)
(* of a point.  Points that the code writes as literals (4, 12.0, 8.0) are *)
(* multiplied by PointUnit where they meet such a product.  round(x, 1) is *)
(* Round1: the nearest multiple of ten hundredths.  The start              *)
(* probabilities of the inputs are even tenths, so no value lies exactly   *)
(* half way between two tenths and the float tie rule never decides.       *)
(***************************************************************************)
EXTENDS Integers, Sequences, FiniteSets, TLC

VARIABLES
    all_players,             \* plan_transfers argument: id -> PlayerData fields
    current_squad,           \* plan_transfers argument: list of player ids
    planning_horizon,        \* plan_transfers argument
    max_transfers_per_week,  \* plan_transfers argument
    available_chips,         \* plan_transfers argument: the chips set to True
    current_gameweek,        \* plan_transfers argument
    current_state,           \* the planner's rolling state (squad, gameweek, ...)
    gameweek_plans,          \* list of GameweekPlan built by the loop
    week_offset,             \* loop variable of plan_transfers
    plan_result,             \* the dict plan_transfers returns (<<>> until then)
    pc,                      \* "plan": in the loop, "done": returned, "idle": no call
    opt_players,             \* optimize_squad argument `players`: id -> PlayerData
    constraints,             \* optimize_squad argument: OptimizationConstraints
    squad_result,            \* what optimize_squad returned or raised
    opt_pc,                  \* "call": before the solve, "done": after, "idle": no call
    formation_index,         \* find_best_formation: catalog entries tried so far
    best_formation,          \* find_best_formation local ({} for None)
    best_points,             \* find_best_formation local
    best_result,             \* find_best_formation local (<<>> for None)
    formation_results,       \* find_best_formation local: formation name -> result
    search_return,           \* the dict find_best_formation returns (<<>> until then)
    search_pc,               \* "loop": in the for loop, "done": returned, "idle": no call
    captain_players,         \* optimize_captain_choice argument `players`
    captain_squad,           \* optimize_captain_choice argument `current_squad`: ids
    captain_return,          \* the dict optimize_captain_choice returns (<<>> until then)
    captain_pc               \* "call": before the call, "done": returned, "idle": no call

planner_vars ==
    <<all_players, current_squad, planning_horizon, max_transfers_per_week,
      available_chips, current_gameweek, current_state, gameweek_plans,
      week_offset, plan_result, pc>>

optimizer_vars == <<opt_players, constraints, squad_result, opt_pc>>

search_vars ==
    <<formation_index, best_formation, best_points, best_result, formation_results,
      search_return, search_pc>>

captain_vars == <<captain_players, captain_squad, captain_return, captain_pc>>

vars == <<planner_vars, optimizer_vars, search_vars, captain_vars>>

\* no call of plan_transfers in this behaviour
PlannerIdle ==
    /\ all_players = <<>>
    /\ current_squad = <<>>
    /\ planning_horizon = 0
    /\ max_transfers_per_week = 0
    /\ available_chips = {}
    /\ current_gameweek = 0
    /\ current_state = <<>>
    /\ gameweek_plans = <<>>
    /\ week_offset = 0
    /\ plan_result = <<>>
    /\ pc = "idle"

\* no call of find_best_formation in this behaviour
SearchIdle ==
    /\ formation_index = 0
    /\ best_formation = {}
    /\ best_points = 0
    /\ best_result = <<>>
    /\ formation_results = <<>>
    /\ search_return = <<>>
    /\ search_pc = "idle"

\* no call of optimize_captain_choice in this behaviour
CaptainIdle ==
    /\ captain_players = <<>>
    /\ captain_squad = <<>>
    /\ captain_return = <<>>
    /\ captain_pc = "idle"

(***************************************************************************)
(* Bounds of the model and the inputs it draws                             *)
(***************************************************************************)
NPlayers == 5
MaxHorizon == 3
MaxTransfers == 2

\* hundredths of a point in one point (tenths of points x tenths of probability)
PointUnit == 10 * 10

\* (predicted_points in tenths, start_probability in tenths) a player may have:
\* 0.4 x 0.8 = 0.32, 8.3 x 0.4 = 3.32 and 7.9 x 0.8 = 6.32 expected points
Profiles == { <<4, 8>>, <<83, 4>>, <<79, 8>> }

\* position of pool player i: the pool alternates two of the four positions
PositionOf(i) == IF i % 2 = 1 THEN 2 ELSE 3

\* price of pool player i, in tenths of a million
PriceOf(i) == 40 + 5 * i

ChipNames == {"wildcard", "bench_boost", "triple_captain", "free_hit"}
ChipChoices == { {}, ChipNames }
GameweekChoices == {1}

(***************************************************************************)
(* Arithmetic helpers                                                      *)
(***************************************************************************)
Max2(a, b) == IF a >= b THEN a ELSE b

\* round(x, 1) on a value in hundredths: the nearest tenth, a tie to the even tenth
Round1(x) ==
    LET r == x % 10
        lo == x - r
    IN  IF r < 5 THEN lo
        ELSE IF r > 5 THEN lo + 10
        ELSE IF (lo \div 10) % 2 = 0 THEN lo ELSE lo + 10

\* the ids of a list
Ids(s) == { s[k] : k \in 1..Len(s) }

\* predicted_points * start_probability of player record p (hundredths)
ExpectedValue(p) == p.predicted_points * p.start_probability

RECURSIVE SumOver(_, _)
\* the sum of f[k] over the set S of indices
SumOver(f, S) ==
    IF S = {} THEN 0
    ELSE LET k == CHOOSE x \in S : TRUE IN f[k] + SumOver(f, S \ {k})

(***************************************************************************)
(* TransferPlanner._find_transfer_options                                  *)
(***************************************************************************)
\* one TransferOption
TransferOption(out, in, gain, gw) ==
    [player_out_id |-> out, player_in_id |-> in, cost |-> 4,
     expected_gain |-> gain, price_change |-> 0, gameweek |-> gw]

\* (mutant of OptionsFor: replacements of any position)
OptionsForAnyPosition(out, available, players, gw) ==
    [k \in 1..Len(available) |->
        TransferOption(out, available[k],
            ExpectedValue(players[available[k]]) - ExpectedValue(players[out]), gw)]

\* the candidates of one squad member, in pool order
OptionsFor(out, available, players, gw) ==
    LET position_replacements ==
            SelectSeq(available,
                      LAMBDA r : players[r].position = players[out].position)
    IN  [k \in 1..Len(position_replacements) |->
            TransferOption(out, position_replacements[k],
                ExpectedValue(players[position_replacements[k]])
                    - ExpectedValue(players[out]), gw)]

RECURSIVE AllOptions(_, _, _, _)
\* the nested loops: squad members outside, replacements inside
AllOptions(squad, available, players, gw) ==
    IF squad = <<>> THEN <<>>
    ELSE OptionsFor(Head(squad), available, players, gw)
            \o AllOptions(Tail(squad), available, players, gw)

RECURSIVE InsertByGain(_, _)
\* x placed after every element whose gain is at least its own (a stable sort)
InsertByGain(sorted, x) ==
    IF sorted = <<>> THEN <<x>>
    ELSE IF Head(sorted).expected_gain >= x.expected_gain
         THEN <<Head(sorted)>> \o InsertByGain(Tail(sorted), x)
         ELSE <<x>> \o sorted

RECURSIVE SortByGainDesc(_)
\* list.sort(key=expected_gain, reverse=True): stable, largest gain first
SortByGainDesc(s) ==
    IF s = <<>> THEN <<>>
    ELSE InsertByGain(SortByGainDesc(SubSeq(s, 1, Len(s) - 1)), s[Len(s)])

\* the pool as the list all_players, in id order
PoolList(players) == [k \in 1..Cardinality(DOMAIN players) |-> k]

find_transfer_options(squad, players, gw) ==
    LET squad_player_ids == Ids(squad)
        available_players ==
            SelectSeq(PoolList(players), LAMBDA p : p \notin squad_player_ids)
    IN  SortByGainDesc(AllOptions(squad, available_players, players, gw))

\* predicted_points of a PlayerData built with None for it (the dataclass
\* checks nothing), written as a number no prediction is
NoPrediction == 0 - 1

\* the gain arithmetic on a pair one of which has None raises TypeError: some
\* squad member has a same-position replacement, and one of the two has no
\* prediction
find_transfer_options_raises(squad, players) ==
    \E k \in 1..Len(squad), r \in DOMAIN players :
        /\ r \notin Ids(squad)
        /\ players[r].position = players[squad[k]].position
        /\ \/ players[r].predicted_points = NoPrediction
           \/ players[squad[k]].predicted_points = NoPrediction

(***************************************************************************)
(* TransferPlanner._select_transfers                                       *)
(***************************************************************************)
\* (mutant of AtTransferLimit: the break test off by one)
AtTransferLimitOffByOne(n_selected, max_transfers) == n_selected > max_transfers

\* the loop's break test
AtTransferLimit(n_selected, max_transfers) == n_selected >= max_transfers

\* (mutant of MarginalCost: every transfer taken as free)
MarginalCostAlwaysFree(n_selected, free_transfers) == 0

\* points the next transfer costs
MarginalCost(n_selected, free_transfers) ==
    IF n_selected >= free_transfers THEN 4 ELSE 0

\* (mutant of Profitable: a gain equal to the cost is enough)
ProfitableOrEqual(option, n_selected, free_transfers) ==
    option.expected_gain >= MarginalCost(n_selected, free_transfers) * PointUnit

\* the profitability test of one option
Profitable(option, n_selected, free_transfers) ==
    option.expected_gain > MarginalCost(n_selected, free_transfers) * PointUnit

\* (mutant of AlreadyUsed: only the outgoing player is looked up)
AlreadyUsedOutOnly(option, selected) ==
    option.player_out_id \in { selected[k].player_out_id : k \in 1..Len(selected) }

\* the players-already-involved test of one option
AlreadyUsed(option, selected) ==
    \/ option.player_out_id \in { selected[k].player_out_id : k \in 1..Len(selected) }
    \/ option.player_in_id \in { selected[k].player_in_id : k \in 1..Len(selected) }

RECURSIVE SelectLoop(_, _, _, _)
SelectLoop(options, selected, max_transfers, free_transfers) ==
    IF options = <<>> THEN selected
    ELSE IF AtTransferLimit(Len(selected), max_transfers) THEN selected
    ELSE IF AlreadyUsed(Head(options), selected)
         THEN SelectLoop(Tail(options), selected, max_transfers, free_transfers)
    ELSE IF Profitable(Head(options), Len(selected), free_transfers)
         THEN SelectLoop(Tail(options), Append(selected, Head(options)),
                         max_transfers, free_transfers)
    ELSE SelectLoop(Tail(options), selected, max_transfers, free_transfers)

select_transfers(transfer_options, max_transfers, free_transfers) ==
    IF transfer_options = <<>> THEN <<>>
    ELSE SelectLoop(transfer_options, <<>>, max_transfers, free_transfers)

(***************************************************************************)
(* TransferPlanner._apply_transfers: the outgoing players are removed; the *)
(* code adds nobody (its "add players" step is a comment)                  *)
(***************************************************************************)
apply_transfers(squad, transfers) ==
    LET players_out == { transfers[k].player_out_id : k \in 1..Len(transfers) }
    IN  SelectSeq(squad, LAMBDA p : p \notin players_out)

(***************************************************************************)
(* TransferPlanner._calculate_squad_expected_points                        *)
(***************************************************************************)
StartingXI == 11

RECURSIVE InsertByPredicted(_, _, _)
InsertByPredicted(sorted, x, players) ==
    IF sorted = <<>> THEN <<x>>
    ELSE IF players[Head(sorted)].predicted_points >= players[x].predicted_points
         THEN <<Head(sorted)>> \o InsertByPredicted(Tail(sorted), x, players)
         ELSE <<x>> \o sorted

RECURSIVE SortByPredictedDesc(_, _)
\* sorted(squad, key=predicted_points, reverse=True)
SortByPredictedDesc(s, players) ==
    IF s = <<>> THEN <<>>
    ELSE InsertByPredicted(SortByPredictedDesc(SubSeq(s, 1, Len(s) - 1), players),
                           s[Len(s)], players)

RECURSIVE SumExpected(_, _)
\* sum of predicted_points * start_probability over the list s of ids
SumExpected(s, players) ==
    IF s = <<>> THEN 0
    ELSE ExpectedValue(players[Head(s)]) + SumExpected(Tail(s), players)

RECURSIVE MaxExpected(_, _)
\* the largest predicted_points * start_probability in the list s, s not empty
MaxExpected(s, players) ==
    IF Len(s) = 1 THEN ExpectedValue(players[s[1]])
    ELSE Max2(ExpectedValue(players[Head(s)]), MaxExpected(Tail(s), players))

calculate_squad_expected_points(squad, players) ==
    LET sorted_squad == SortByPredictedDesc(squad, players)
        starting_xi ==
            SubSeq(sorted_squad, 1,
                   IF Len(sorted_squad) < StartingXI THEN Len(sorted_squad)
                                                     ELSE StartingXI)
        total_points == SumExpected(starting_xi, players)
    IN  IF starting_xi = <<>> THEN total_points
        ELSE total_points + MaxExpected(starting_xi, players)

(***************************************************************************)
(* TransferPlanner._plan_single_gameweek                                   *)
(***************************************************************************)
\* (mutant of TransferCost: the floor at zero forgotten)
TransferCostNoFloor(num_transfers, free_transfers) ==
    (num_transfers - free_transfers) * 4

\* max(0, (num_transfers - free_transfers) * 4), in points
TransferCost(num_transfers, free_transfers) ==
    Max2(0, (num_transfers - free_transfers) * 4)

RECURSIVE SquadValue(_, _)
\* sum(p.price for p in squad)
SquadValue(squad, players) ==
    IF squad = <<>> THEN 0
    ELSE players[Head(squad)].price + SquadValue(Tail(squad), players)

plan_single_gameweek(state, players, gameweek, max_transfers) ==
    LET transfer_options == find_transfer_options(state.squad, players, gameweek)
        selected_transfers ==
            select_transfers(transfer_options, max_transfers, state.free_transfers)
        new_squad == apply_transfers(state.squad, selected_transfers)
    IN  [gameweek |-> gameweek,
         transfers |-> selected_transfers,
         expected_points |-> calculate_squad_expected_points(new_squad, players),
         squad_value |-> SquadValue(new_squad, players),
         free_transfers |-> state.free_transfers,
         total_transfer_cost |->
            TransferCost(Len(selected_transfers), state.free_transfers)]

(***************************************************************************)
(* TransferPlanner._update_state                                           *)
(***************************************************************************)
\* (mutant of NextFreeTransfers: the two outcomes swapped)
NextFreeTransfersSwapped(transfers) == IF transfers = <<>> THEN 1 ELSE 2

\* 2 if the week made no transfer, else 1
NextFreeTransfers(transfers) == IF transfers = <<>> THEN 2 ELSE 1

update_state(state, week_plan) ==
    [squad |-> apply_transfers(state.squad, week_plan.transfers),
     gameweek |-> week_plan.gameweek + 1,
     free_transfers |-> NextFreeTransfers(week_plan.transfers),
     squad_value |-> week_plan.squad_value,
     chips_used |-> state.chips_used]

(***************************************************************************)
(* Chip analysis: TransferPlanner._analyze_chip_usage and its helpers.     *)
(* recommended_gameweek is a set: empty for None, else the one gameweek.   *)
(***************************************************************************)
ChipStrategy(chip, gw, benefit, confidence) ==
    [chip_type |-> chip, recommended_gameweek |-> gw,
     expected_benefit |-> benefit, confidence |-> confidence]

\* the placeholder the code uses for every week's captain points (12.0)
ExpectedCaptainPoints == 12

RECURSIVE TripleCaptainLoop(_, _, _)
\* the loop over the plans, carrying (best_gameweek, best_benefit)
TripleCaptainLoop(plans, best_gameweek, best_benefit) ==
    IF plans = <<>> THEN <<best_gameweek, best_benefit>>
    ELSE LET triple_captain_benefit == ExpectedCaptainPoints * PointUnit
         IN  IF triple_captain_benefit > best_benefit
             THEN TripleCaptainLoop(Tail(plans), {Head(plans).gameweek},
                                    triple_captain_benefit)
             ELSE TripleCaptainLoop(Tail(plans), best_gameweek, best_benefit)

find_best_triple_captain_gameweek(plans, gw) ==
    LET best == TripleCaptainLoop(plans, {}, 0)
    IN  ChipStrategy("triple_captain", best[1], best[2], 8)

find_best_bench_boost_gameweek(plans, gw) ==
    ChipStrategy("bench_boost", {gw + 2}, 8 * PointUnit, 6)

RECURSIVE TotalTransfers(_)
\* sum(len(plan.transfers) for plan in gameweek_plans)
TotalTransfers(plans) ==
    IF plans = <<>> THEN 0
    ELSE Len(Head(plans).transfers) + TotalTransfers(Tail(plans))

analyze_wildcard_timing(plans, gw, horizon) ==
    LET total_transfers_needed == TotalTransfers(plans)
    IN  IF total_transfers_needed > horizon * 2
        THEN ChipStrategy("wildcard", {gw + 1},
                          (total_transfers_needed * 4 - 4) * PointUnit, 9)
        ELSE ChipStrategy("wildcard", {}, 0, 3)

analyze_free_hit_timing(plans, gw) == ChipStrategy("free_hit", {}, 0, 5)

analyze_chip_usage(plans, chips, gw, horizon) ==
    [c \in chips \cap ChipNames |->
        CASE c = "triple_captain" -> find_best_triple_captain_gameweek(plans, gw)
          [] c = "bench_boost" -> find_best_bench_boost_gameweek(plans, gw)
          [] c = "wildcard" -> analyze_wildcard_timing(plans, gw, horizon)
          [] c = "free_hit" -> analyze_free_hit_timing(plans, gw)]

(***************************************************************************)
(* The returned dictionaries                                               *)
(***************************************************************************)
transfer_to_dict(t) ==
    [player_out_id |-> t.player_out_id, player_in_id |-> t.player_in_id,
     cost |-> t.cost, expected_gain |-> Round1(t.expected_gain),
     price_change |-> Round1(t.price_change), gameweek |-> t.gameweek]

gameweek_plan_to_dict(plan) ==
    [gameweek |-> plan.gameweek,
     transfers |-> [k \in 1..Len(plan.transfers) |-> transfer_to_dict(plan.transfers[k])],
     expected_points |-> Round1(plan.expected_points),
     squad_value |-> plan.squad_value,
     free_transfers |-> plan.free_transfers,
     total_transfer_cost |-> plan.total_transfer_cost,
     net_expected_gain |->
        Round1(plan.expected_points - plan.total_transfer_cost * PointUnit)]

RECURSIVE SumExpectedPoints(_)
\* sum(plan.expected_points for plan in gameweek_plans), hundredths
SumExpectedPoints(plans) ==
    IF plans = <<>> THEN 0
    ELSE Head(plans).expected_points + SumExpectedPoints(Tail(plans))

RECURSIVE SumTransferCosts(_)
\* sum(plan.total_transfer_cost for plan in gameweek_plans), points
SumTransferCosts(plans) ==
    IF plans = <<>> THEN 0
    ELSE Head(plans).total_transfer_cost + SumTransferCosts(Tail(plans))

\* (mutant of PlanResult: the transfer costs not subtracted from the total)
PlanResultGross(plans, chips, gw, horizon) ==
    [gameweek_plans |-> [k \in 1..Len(plans) |-> gameweek_plan_to_dict(plans[k])],
     chip_recommendations |-> analyze_chip_usage(plans, chips, gw, horizon),
     total_expected_gain |-> Round1(SumExpectedPoints(plans)),
     total_transfer_costs |-> SumTransferCosts(plans),
     planning_horizon |-> horizon]

\* the dict plan_transfers returns
PlanResult(plans, chips, gw, horizon) ==
    [gameweek_plans |-> [k \in 1..Len(plans) |-> gameweek_plan_to_dict(plans[k])],
     chip_recommendations |-> analyze_chip_usage(plans, chips, gw, horizon),
     total_expected_gain |->
        Round1(SumExpectedPoints(plans) - SumTransferCosts(plans) * PointUnit),
     total_transfer_costs |-> SumTransferCosts(plans),
     planning_horizon |-> horizon]

(***************************************************************************)
(* plan_transfers as a state machine                                       *)
(***************************************************************************)
\* the state plan_transfers builds before its loop
InitialState(squad, players, gw) ==
    [squad |-> squad, gameweek |-> gw, free_transfers |-> 1,
     squad_value |-> SquadValue(squad, players), chips_used |-> <<>>]

Init ==
    /\ \E n \in 1..NPlayers :
          /\ all_players \in
                { [i \in 1..n |->
                      [position |-> PositionOf(i), price |-> PriceOf(i),
                       predicted_points |-> prof[i][1],
                       start_probability |-> prof[i][2]]] :
                  prof \in [1..n -> Profiles] }
          /\ current_squad \in { [k \in 1..m |-> k] : m \in 0..n }
    /\ planning_horizon \in 1..MaxHorizon
    /\ max_transfers_per_week \in 0..MaxTransfers
    /\ available_chips \in ChipChoices
    /\ current_gameweek \in GameweekChoices
    /\ current_state = InitialState(current_squad, all_players, current_gameweek)
    /\ gameweek_plans = <<>>
    /\ week_offset = 0
    /\ plan_result = <<>>
    /\ pc = "plan"
    /\ opt_players = <<>>
    /\ constraints = <<>>
    /\ squad_result = <<>>
    /\ opt_pc = "idle"
    /\ SearchIdle
    /\ CaptainIdle

\* one pass of the loop `for week_offset in range(planning_horizon)`
PlanWeek ==
    /\ pc = "plan"
    /\ week_offset < planning_horizon
    /\ ~find_transfer_options_raises(current_state.squad, all_players)
    /\ LET target_gameweek == current_gameweek + week_offset
           week_plan == plan_single_gameweek(current_state, all_players,
                                             target_gameweek, max_transfers_per_week)
       IN  /\ gameweek_plans' = Append(gameweek_plans, week_plan)
           /\ current_state' = update_state(current_state, week_plan)
    /\ week_offset' = week_offset + 1
    /\ UNCHANGED <<all_players, current_squad, planning_horizon,
                   max_transfers_per_week, available_chips, current_gameweek,
                   plan_result, pc>>
    /\ UNCHANGED <<optimizer_vars, search_vars, captain_vars>>

\* after the loop: chip analysis, the totals, the returned dict
Finish ==
    /\ pc = "plan"
    /\ week_offset = planning_horizon
    /\ plan_result' = PlanResult(gameweek_plans, available_chips,
                                 current_gameweek, planning_horizon)
    /\ pc' = "done"
    /\ UNCHANGED <<all_players, current_squad, planning_horizon,
                   max_transfers_per_week, available_chips, current_gameweek,
                   current_state, gameweek_plans, week_offset>>
    /\ UNCHANGED <<optimizer_vars, search_vars, captain_vars>>

Next == PlanWeek \/ Finish

Spec == Init /\ [][Next]_vars

(***************************************************************************)
(* plan_transfers on a pool with a player that has no prediction           *)
(***************************************************************************)
\* the calls: as Init, with one pool player outside the squad that has None
\* for predicted_points
FaultInit ==
    /\ \E n \in 1..NPlayers, faulty \in 1..NPlayers :
          /\ faulty <= n
          /\ all_players \in
                { [i \in 1..n |->
                      [position |-> PositionOf(i), price |-> PriceOf(i),
                       predicted_points |->
                          IF i = faulty THEN NoPrediction ELSE prof[1],
                       start_probability |-> prof[2]]] :
                  prof \in Profiles }
          /\ current_squad \in { [k \in 1..m |-> k] : m \in 0..(faulty - 1) }
    /\ planning_horizon \in 1..MaxHorizon
    /\ max_transfers_per_week \in 0..MaxTransfers
    /\ available_chips \in ChipChoices
    /\ current_gameweek \in GameweekChoices
    /\ current_state = InitialState(current_squad, all_players, current_gameweek)
    /\ gameweek_plans = <<>>
    /\ week_offset = 0
    /\ plan_result = <<>>
    /\ pc = "plan"
    /\ opt_players = <<>>
    /\ constraints = <<>>
    /\ squad_result = <<>>
    /\ opt_pc = "idle"
    /\ SearchIdle
    /\ CaptainIdle

\* one pass of the loop whose _plan_single_gameweek raises in
\* _find_transfer_options: nothing in plan_transfers catches it, the call
\* ends with the exception and returns nothing
PlanWeekRaises ==
    /\ pc = "plan"
    /\ week_offset < planning_horizon
    /\ find_transfer_options_raises(current_state.squad, all_players)
    /\ pc' = "raised"
    /\ UNCHANGED <<all_players, current_squad, planning_horizon,
                   max_transfers_per_week, available_chips, current_gameweek,
                   current_state, gameweek_plans, week_offset, plan_result>>
    /\ UNCHANGED <<optimizer_vars, search_vars, captain_vars>>

FaultNext == PlanWeek \/ PlanWeekRaises \/ Finish

SpecFault == FaultInit /\ [][FaultNext]_vars

(***************************************************************************)
(* Claims about the transfer planner                                       *)
(***************************************************************************)
Plans == 1..Len(gameweek_plans)

\* C1: after every period the planner's rolling squad has as many players as
\* the squad it started with (each transfer removes one player and inserts one)
C1_SquadSizePreserved == Len(current_state.squad) = Len(current_squad)

\* C2: every GameweekPlan has total_transfer_cost =
\* max(0, (number of its transfers - its free_transfers) * 4)
C2_TransferCostFormula ==
    \A k \in Plans :
        LET n == Len(gameweek_plans[k].transfers)
            ft == gameweek_plans[k].free_transfers
        IN  /\ gameweek_plans[k].total_transfer_cost =
                    (IF n > ft THEN (n - ft) * 4 ELSE 0)
            /\ pc = "done" =>
                  /\ plan_result.gameweek_plans[k].total_transfer_cost =
                        (IF n > ft THEN (n - ft) * 4 ELSE 0)
                  /\ Len(plan_result.gameweek_plans[k].transfers) = n
                  /\ plan_result.gameweek_plans[k].free_transfers = ft

\* C2 witness: one plan paid 4 points for a second transfer and a later plan
\* made fewer transfers than it had free (the floor at zero decides)
C2_Witness ==
    /\ \E k \in Plans : gameweek_plans[k].total_transfer_cost = 4
    /\ \E k \in Plans :
          /\ Len(gameweek_plans[k].transfers) < gameweek_plans[k].free_transfers
          /\ gameweek_plans[k].total_transfer_cost = 0

\* C3: the first plan has free_transfers 1; plan k > 1 has 2 if plan k-1 made
\* no transfer and 1 otherwise; the state's free_transfers is always 1 or 2
C3_FreeTransferRollover ==
    /\ current_state.free_transfers \in {1, 2}
    /\ \A k \in Plans :
          gameweek_plans[k].free_transfers =
             (IF k = 1 THEN 1
              ELSE IF Len(gameweek_plans[k - 1].transfers) = 0 THEN 2 ELSE 1)
    /\ Len(gameweek_plans) > 0 =>
          current_state.free_transfers =
             (IF Len(gameweek_plans[Len(gameweek_plans)].transfers) = 0
              THEN 2 ELSE 1)

\* C3 witness: a run whose plans recorded 1, then 1 after a week with a
\* transfer, then 2 after a week without one
C3_Witness ==
    /\ Len(gameweek_plans) = 3
    /\ Len(gameweek_plans[1].transfers) > 0
    /\ gameweek_plans[2].free_transfers = 1
    /\ Len(gameweek_plans[2].transfers) = 0
    /\ gameweek_plans[3].free_transfers = 2

\* C4: no plan holds more transfers than max_transfers_per_week (none at all
\* when it is 0)
C4_AtMostMaxTransfers ==
    \A k \in Plans : Len(gameweek_plans[k].transfers) <= max_transfers_per_week

\* C4 witness: the limit of 1 cut the first week short (a limit of 2 would have
\* selected two transfers)
C4_Witness ==
    /\ max_transfers_per_week = 1
    /\ Len(gameweek_plans) >= 1
    /\ Len(gameweek_plans[1].transfers) = 1
    /\ Len(select_transfers(
              find_transfer_options(current_squad, all_players, current_gameweek),
              2, 1)) = 2

\* Scenario D: the first period (free_transfers = 1) has room for two transfers
\* and its candidates are exactly two, on different players, with gains 6 and 3
ScenarioD ==
    LET options ==
            find_transfer_options(current_squad, all_players, current_gameweek)
    IN  /\ Len(gameweek_plans) >= 1
        /\ max_transfers_per_week >= 2
        /\ Len(options) = 2
        /\ options[1].expected_gain = 6 * PointUnit
        /\ options[2].expected_gain = 3 * PointUnit
        /\ options[1].player_out_id # options[2].player_out_id
        /\ options[1].player_in_id # options[2].player_in_id

\* C5 as claimed: in Scenario D both transfers are made, the transfer cost is 4
\* and the net gain is expected_points - 4
C5_ScenarioD_AsClaimed ==
    ScenarioD =>
        /\ Len(gameweek_plans[1].transfers) = 2
        /\ gameweek_plans[1].total_transfer_cost = 4
        /\ pc = "done" =>
              plan_result.gameweek_plans[1].net_expected_gain =
                 plan_result.gameweek_plans[1].expected_points - 4 * PointUnit

\* C5 amended: in Scenario D only the gain-6 transfer is made (a gain of 3 does
\* not exceed the 4 points a second transfer costs), the transfer cost is 0 and
\* the net gain is expected_points
C5_ScenarioD_Amended ==
    ScenarioD =>
        /\ Len(gameweek_plans[1].transfers) = 1
        /\ gameweek_plans[1].transfers[1].expected_gain = 6 * PointUnit
        /\ gameweek_plans[1].total_transfer_cost = 0
        /\ pc = "done" =>
              plan_result.gameweek_plans[1].net_expected_gain =
                 plan_result.gameweek_plans[1].expected_points

\* C5 witness: Scenario D planned as a single period and returned
C5_Witness == ScenarioD /\ planning_horizon = 1 /\ pc = "done"

\* what C6 says of the list and of total_transfer_costs
C6_ListAndCosts ==
    /\ Len(plan_result.gameweek_plans) = planning_horizon
    /\ \A k \in 1..planning_horizon :
          plan_result.gameweek_plans[k].gameweek = current_gameweek + k - 1
    /\ plan_result.total_transfer_costs =
          SumOver([k \in 1..planning_horizon |->
                      plan_result.gameweek_plans[k].total_transfer_cost],
                  1..planning_horizon)

\* C6 as claimed: total_expected_gain is the sum of the plans' expected_points
\* less the sum of their transfer costs (taking the expected_points either as
\* returned or as the planner computed them), total_transfer_costs is that
\* second sum, and the list has planning_horizon entries in period order
C6_Totals_AsClaimed ==
    pc = "done" =>
        /\ C6_ListAndCosts
        /\ \/ plan_result.total_expected_gain =
                 SumOver([k \in 1..planning_horizon |->
                             plan_result.gameweek_plans[k].expected_points],
                         1..planning_horizon)
                 - plan_result.total_transfer_costs * PointUnit
           \/ plan_result.total_expected_gain =
                 SumOver([k \in Plans |-> gameweek_plans[k].expected_points], Plans)
                 - plan_result.total_transfer_costs * PointUnit

\* C6 amended: total_expected_gain is that difference, taken on the
\* expected_points the planner computed, rounded to one decimal
C6_Totals_Amended ==
    pc = "done" =>
        /\ C6_ListAndCosts
        /\ plan_result.total_expected_gain =
              Round1(SumOver([k \in Plans |-> gameweek_plans[k].expected_points],
                             Plans)
                     - plan_result.total_transfer_costs * PointUnit)

\* C6 witness: a returned plan over several periods that paid for a transfer
\* and whose total is not a whole number of tenths before rounding
C6_Witness ==
    /\ pc = "done"
    /\ planning_horizon >= 2
    /\ plan_result.total_transfer_costs > 0
    /\ SumOver([k \in Plans |-> gameweek_plans[k].expected_points], Plans) % 10 # 0

(***************************************************************************)
(* SquadOptimizer (squad_optimizer.py).  Prices are in tenths of a         *)
(* million, so round(total_cost, 1) changes nothing; variances are in      *)
(* hundredths of a point and risk_tolerance in tenths.                     *)
(***************************************************************************)
GOALKEEPER == 1
DEFENDER == 2
MIDFIELDER == 3
FORWARD == 4
Positions == {GOALKEEPER, DEFENDER, MIDFIELDER, FORWARD}

\* OptimizationConstraints.formation = None
NoFormation == ""

FormationConstraints(gk, def, mid, fwd) ==
    [goalkeepers |-> gk, defenders |-> def, midfielders |-> mid, forwards |-> fwd]

\* the catalog, in the order of the dict
FORMATION_NAMES == <<"3-4-3", "3-5-2", "4-3-3", "4-4-2", "4-5-1", "5-3-2", "5-4-1">>

FORMATION_CONSTRAINTS ==
    ("3-4-3" :> FormationConstraints(1, <<3, 3>>, <<4, 4>>, <<3, 3>>)) @@
    ("3-5-2" :> FormationConstraints(1, <<3, 3>>, <<5, 5>>, <<2, 2>>)) @@
    ("4-3-3" :> FormationConstraints(1, <<4, 4>>, <<3, 3>>, <<3, 3>>)) @@
    ("4-4-2" :> FormationConstraints(1, <<4, 4>>, <<4, 4>>, <<2, 2>>)) @@
    ("4-5-1" :> FormationConstraints(1, <<4, 4>>, <<5, 5>>, <<1, 1>>)) @@
    ("5-3-2" :> FormationConstraints(1, <<5, 5>>, <<3, 3>>, <<2, 2>>)) @@
    ("5-4-1" :> FormationConstraints(1, <<5, 5>>, <<4, 4>>, <<1, 1>>))

\* the bounds the else branch writes out when no catalog formation is given
GeneralFormation == FormationConstraints(1, <<3, 5>>, <<2, 5>>, <<1, 3>>)

\* (mutant of AppliedFormation: the requested formation never looked up)
AppliedFormationGeneralOnly(c) == GeneralFormation

\* the formation constraint _add_squad_constraints applies to the starting XI
AppliedFormation(c) ==
    IF c.formation # NoFormation /\ c.formation \in DOMAIN FORMATION_CONSTRAINTS
    THEN FORMATION_CONSTRAINTS[c.formation]
    ELSE GeneralFormation

\* <<min, max>> starters of a position
StartingBounds(position, c) ==
    LET f == AppliedFormation(c)
    IN  CASE position = GOALKEEPER -> <<f.goalkeepers, f.goalkeepers>>
          [] position = DEFENDER -> f.defenders
          [] position = MIDFIELDER -> f.midfielders
          [] position = FORWARD -> f.forwards

\* _group_players_by_position, one group
ByPosition(pl, position) == { i \in DOMAIN pl : pl[i].position = position }

\* the 2/5/5/3 of a full squad
SquadQuota(position) ==
    CASE position = GOALKEEPER -> 2
      [] position = DEFENDER -> 5
      [] position = MIDFIELDER -> 5
      [] position = FORWARD -> 3

\* (mutant of QuotaOK: the quota met to within one player)
QuotaWithinOne(n_selected, position, c) ==
    c.squad_size = 15 =>
        /\ n_selected >= SquadQuota(position) - 1
        /\ n_selected <= SquadQuota(position) + 1

\* the squad's position constraint: only for a squad of 15
QuotaOK(n_selected, position, c) ==
    c.squad_size = 15 => n_selected = SquadQuota(position)

\* sum(price) over the set S of ids
TotalPrice(S, pl) == SumOver([i \in DOMAIN pl |-> pl[i].price], S)

\* (mutant of BudgetOK: the budget constraint left out)
BudgetIgnored(S, pl, c) == TRUE

\* budget constraint
BudgetOK(S, pl, c) == TotalPrice(S, pl) <= c.budget

\* (mutant of TeamCapOK: one player too many allowed per team)
TeamCapOffByOne(S, pl, c) ==
    \A t \in { pl[i].team_id : i \in DOMAIN pl } :
        Cardinality({ i \in S : pl[i].team_id = t }) <= c.max_players_per_team + 1

\* team constraints: one per team id of the pool
TeamCapOK(S, pl, c) ==
    \A t \in { pl[i].team_id : i \in DOMAIN pl } :
        Cardinality({ i \in S : pl[i].team_id = t }) <= c.max_players_per_team

\* excluded players: only the ids that have a variable
ExcludedOK(S, pl, c) ==
    \A id \in c.excluded_players : id \in DOMAIN pl => id \notin S

\* required players: only the ids that have a variable
RequiredOK(S, pl, c) ==
    \A id \in c.required_players : id \in DOMAIN pl => id \in S

\* the values of the squad variables of one position that meet the quota
SquadPositionSets(position, pl, c) ==
    { X \in SUBSET ByPosition(pl, position) : QuotaOK(Cardinality(X), position, c) }

\* the squads (sets of ids whose squad variable is 1) meeting every constraint
\* on the squad variables alone
FeasibleSquads(pl, c) ==
    { S \in { q[1] \cup q[2] \cup q[3] \cup q[4] :
                q \in SquadPositionSets(GOALKEEPER, pl, c)
                      \X SquadPositionSets(DEFENDER, pl, c)
                      \X SquadPositionSets(MIDFIELDER, pl, c)
                      \X SquadPositionSets(FORWARD, pl, c) } :
        /\ Cardinality(S) = c.squad_size
        /\ BudgetOK(S, pl, c)
        /\ TeamCapOK(S, pl, c)
        /\ ExcludedOK(S, pl, c)
        /\ RequiredOK(S, pl, c) }

\* the numbers of starters <<gk, def, mid, fwd>> the formation's bounds and
\* the size of the starting XI allow
StartingShapes(c) ==
    { n \in (StartingBounds(GOALKEEPER, c)[1]..StartingBounds(GOALKEEPER, c)[2])
            \X (StartingBounds(DEFENDER, c)[1]..StartingBounds(DEFENDER, c)[2])
            \X (StartingBounds(MIDFIELDER, c)[1]..StartingBounds(MIDFIELDER, c)[2])
            \X (StartingBounds(FORWARD, c)[1]..StartingBounds(FORWARD, c)[2]) :
        n[1] + n[2] + n[3] + n[4] = c.starting_xi_size }

\* the values of the starting variables of one position with n starters,
\* within the squad (starting <= squad)
StartingPositionSets(position, S, pl, n) ==
    { X \in SUBSET (S \cap ByPosition(pl, position)) : Cardinality(X) = n }

\* the starting XIs a squad allows
FeasibleStartings(S, pl, c) ==
    UNION { { q[1] \cup q[2] \cup q[3] \cup q[4] :
                q \in StartingPositionSets(GOALKEEPER, S, pl, n[1])
                      \X StartingPositionSets(DEFENDER, S, pl, n[2])
                      \X StartingPositionSets(MIDFIELDER, S, pl, n[3])
                      \X StartingPositionSets(FORWARD, S, pl, n[4]) } :
            n \in StartingShapes(c) }

\* the objective's coefficient of starting_vars[i]: base points and risk term
StartingCoefficient(p, c) ==
    ExpectedValue(p)
      + (IF c.risk_tolerance < 5
         THEN 0 - (p.variance * (5 - c.risk_tolerance) * 2) \div 10
         ELSE IF c.risk_tolerance > 5
         THEN (p.variance * (c.risk_tolerance - 5) * 2) \div 10
         ELSE 0)

\* the objective's coefficient of captain_vars[i]
CaptainCoefficient(p) == ExpectedValue(p)

RECURSIVE MaxIn(_, _, _)
\* the largest element of the set V of numbers, known to lie in lo..hi
MaxIn(V, lo, hi) ==
    IF lo >= hi THEN lo
    ELSE LET mid == (lo + hi + 1) \div 2
         IN  IF \E v \in V : v >= mid THEN MaxIn(V, mid, hi)
                                      ELSE MaxIn(V, lo, mid - 1)

\* a bound no objective value exceeds in size: every coefficient counted
ObjectiveBound(pl, c) ==
    SumOver([i \in DOMAIN pl |->
                ExpectedValue(pl[i]) + pl[i].variance + CaptainCoefficient(pl[i])],
            DOMAIN pl)

\* the objective at squad S, starting XI T and captain k (squad variables
\* have no coefficient)
Objective(T, k, pl, c) ==
    SumOver([i \in DOMAIN pl |-> StartingCoefficient(pl[i], c)], T)
        + CaptainCoefficient(pl[k])

\* (mutant of BestCaptains: captain <= starting left out, any pool player may
\* carry the captain variable)
BestCaptainsOfPool(T, pl) ==
    { k \in DOMAIN pl :
        \A j \in DOMAIN pl : CaptainCoefficient(pl[j]) <= CaptainCoefficient(pl[k]) }

\* the captains (captain <= starting, one captain) that make the most of T
BestCaptains(T, pl) ==
    { k \in T : \A j \in T : CaptainCoefficient(pl[j]) <= CaptainCoefficient(pl[k]) }

\* the largest objective a starting XI T reaches
BestObjective(T, pl, c) ==
    Objective(T, CHOOSE k \in BestCaptains(T, pl) : TRUE, pl, c)

\* (mutant of OptimalValue: the value of some feasible assignment, not the
\* largest)
OptimalValueAnyFeasible(pl, c) ==
    LET values == UNION { { BestObjective(T, pl, c) : T \in FeasibleStartings(S, pl, c) } :
                          S \in FeasibleSquads(pl, c) }
    IN  IF values = {} THEN 0 ELSE CHOOSE v \in values : TRUE

\* the optimum of the program; only asked of a solvable one
OptimalValue(pl, c) ==
    MaxIn(UNION { { BestObjective(T, pl, c) : T \in FeasibleStartings(S, pl, c) } :
                  S \in FeasibleSquads(pl, c) },
          0 - ObjectiveBound(pl, c), ObjectiveBound(pl, c))

\* prob.solve: the assignments (squad, starting, captain variables at 1) that
\* satisfy every constraint and maximise the objective; empty when infeasible
OptimalAssignments(pl, c) ==
    LET best == OptimalValue(pl, c)
    IN  UNION { UNION { { [squad |-> S, starting |-> T, captain |-> {k}] :
                            k \in BestCaptains(T, pl) } :
                        T \in { X \in FeasibleStartings(S, pl, c) :
                                  BestObjective(X, pl, c) = best } } :
                S \in FeasibleSquads(pl, c) }

\* _determine_formation: the label d-m-f, as the three counts
determine_formation(starting_players, pl) ==
    << Cardinality(starting_players \cap ByPosition(pl, DEFENDER)),
       Cardinality(starting_players \cap ByPosition(pl, MIDFIELDER)),
       Cardinality(starting_players \cap ByPosition(pl, FORWARD)) >>

\* _extract_solution on the solved variables a; total_cost is round(sum, 1) of
\* prices that are whole tenths, which is the sum itself
\* (mutant of extract_solution: the captain's points counted once)
extract_solution_single_captain(pl, a, c) ==
    LET squad_players == { i \in DOMAIN pl : i \in a.squad }
        starting_players == { i \in squad_players : i \in a.starting }
        captains == { i \in starting_players : i \in a.captain }
    IN  [status |-> "ok",
         squad |-> squad_players,
         starting_xi |-> starting_players,
         bench |-> squad_players \ starting_players,
         formation |-> determine_formation(starting_players, pl),
         total_cost |-> TotalPrice(squad_players, pl),
         predicted_points |->
            Round1(SumOver([i \in DOMAIN pl |-> ExpectedValue(pl[i])], starting_players)),
         captain_id |-> captains,
         alternatives |-> <<>>]

extract_solution(pl, a, c) ==
    LET squad_players == { i \in DOMAIN pl : i \in a.squad }
        starting_players == { i \in squad_players : i \in a.starting }
        bench_players == squad_players \ starting_players
        captains == { i \in starting_players : i \in a.captain }
    IN  [status |-> "ok",
         squad |-> squad_players,
         starting_xi |-> starting_players,
         bench |-> bench_players,
         formation |-> determine_formation(starting_players, pl),
         total_cost |-> TotalPrice(squad_players, pl),
         predicted_points |->
            Round1(SumOver([i \in DOMAIN pl |-> ExpectedValue(pl[i])], starting_players)
                   + SumOver([i \in DOMAIN pl |-> ExpectedValue(pl[i])], captains)),
         captain_id |-> captains,
         alternatives |-> <<>>]

\* the solver's status is Optimal: some assignment meets every constraint
Solvable(pl, c) ==
    \E S \in FeasibleSquads(pl, c) : FeasibleStartings(S, pl, c) # {}

\* (mutant of OptimizationFailed: an empty result handed back instead of the
\* raise)
OptimizationFailedPartial ==
    [status |-> "ok", squad |-> {}, starting_xi |-> {}, bench |-> {},
     formation |-> <<0, 0, 0>>, total_cost |-> 0, predicted_points |-> 0,
     captain_id |-> {}, alternatives |-> <<>>]

\* the ValueError optimize_squad raises when the status is not Optimal
OptimizationFailed == [status |-> "error"]

(***************************************************************************)
(* optimize_squad as a state machine: the call with its arguments, then    *)
(* the solve and the extraction (or the raise)                             *)
(***************************************************************************)
\* players in the pool beyond the squad size
NExtra == 1

\* the roster the pools are cut from: the first 15 hold 2/5/5/3 of the four
\* positions, and so that every prefix is mixed the positions are interleaved
RosterPosition(i) ==
    IF i <= 15 THEN <<1, 2, 3, 4, 2, 3, 4, 2, 3, 1, 2, 3, 4, 2, 3>>[i]
    ELSE <<2, 3, 4, 1>>[((i - 16) % 4) + 1]

RosterPlayer(i) ==
    [position |-> RosterPosition(i),
     team_id |-> ((i - 1) % 5) + 1,
     price |-> 40 + 5 * ((3 * i) % 7),
     predicted_points |-> 20 + 5 * ((7 * i) % 11),
     start_probability |-> <<4, 8, 10>>[(i % 3) + 1],
     variance |-> 10 * (i % 4)]

SquadSizeChoices == {11, 15}
BudgetChoices == {100, 830, 1000}
TeamCapChoices == {3, 15}
StartingSizeChoices == {10, 11}
FormationChoices == {NoFormation} \cup DOMAIN FORMATION_CONSTRAINTS

\* an id no pool holds
OutsideId == 99

\* <<excluded_players, required_players>> of the calls that give some: one
\* player out and one in, an id outside the pool on either list, and an id on
\* both lists, inside the pool and outside it
ExclusionChoices ==
    { <<{14}, {16}>>, <<{OutsideId}, {}>>, <<{}, {OutsideId}>>,
      <<{14}, {14}>>, <<{OutsideId}, {OutsideId}>> }
ExclusionFormations == {NoFormation, "4-4-2"}

\* risk_tolerance (tenths) of the calls away from the neutral 0.5
RiskChoices == {2, 8}

\* the constraints of a call for a squad of the given size
ConstraintChoices(size) ==
    { [budget |-> budget, squad_size |-> size,
       starting_xi_size |-> starting, max_players_per_team |-> cap,
       formation |-> formation, excluded_players |-> {},
       required_players |-> {}, risk_tolerance |-> 5] :
        budget \in BudgetChoices, cap \in TeamCapChoices,
        formation \in FormationChoices, starting \in StartingSizeChoices }
    \cup
    { [budget |-> 1000, squad_size |-> size,
       starting_xi_size |-> 11, max_players_per_team |-> 15,
       formation |-> formation, excluded_players |-> x[1],
       required_players |-> x[2], risk_tolerance |-> 5] :
        formation \in ExclusionFormations, x \in ExclusionChoices }
    \cup
    { [budget |-> 1000, squad_size |-> size,
       starting_xi_size |-> 11, max_players_per_team |-> 15,
       formation |-> NoFormation, excluded_players |-> {},
       required_players |-> {}, risk_tolerance |-> risk] :
        risk \in RiskChoices }

OptInit ==
    /\ \E size \in SquadSizeChoices, extra \in 0..NExtra :
          /\ opt_players = [i \in 1..(size + extra) |-> RosterPlayer(i)]
          /\ constraints \in ConstraintChoices(size)
    /\ squad_result = <<>>
    /\ opt_pc = "call"
    /\ PlannerIdle
    /\ SearchIdle
    /\ CaptainIdle

\* the solve found an optimum: the solution is extracted and returned
SolveOptimal ==
    /\ opt_pc = "call"
    /\ \E a \in OptimalAssignments(opt_players, constraints) :
          squad_result' = extract_solution(opt_players, a, constraints)
    /\ opt_pc' = "done"
    /\ UNCHANGED <<opt_players, constraints>>
    /\ UNCHANGED <<planner_vars, search_vars, captain_vars>>

\* the solve found the problem infeasible: optimize_squad raises
SolveInfeasible ==
    /\ opt_pc = "call"
    /\ ~Solvable(opt_players, constraints)
    /\ squad_result' = OptimizationFailed
    /\ opt_pc' = "done"
    /\ UNCHANGED <<opt_players, constraints>>
    /\ UNCHANGED <<planner_vars, search_vars, captain_vars>>

OptNext == SolveOptimal \/ SolveInfeasible

SpecOpt == OptInit /\ [][OptNext]_vars

(***************************************************************************)
(* Properties of optimize_squad's results                                  *)
(***************************************************************************)
\* optimize_squad has returned a SquadResult
Returned == opt_pc = "done" /\ squad_result.status = "ok"

\* number of the given players at a position, in the pool of the call
CountAt(S, position) == Cardinality(S \cap ByPosition(opt_players, position))

\* the squads that meet every constraint on the squad except the budget's
SquadsButForBudget ==
    FeasibleSquads(opt_players,
                   [constraints EXCEPT !.budget = TotalPrice(DOMAIN opt_players, opt_players)])

\* C7: in every result optimize_squad returns, the prices of the squad's
\* players sum to at most constraints.budget
C7_WithinBudget ==
    Returned => TotalPrice(squad_result.squad, opt_players) <= constraints.budget

\* a result under a budget that rules out a squad every other constraint allows
C7_Witness ==
    /\ Returned
    /\ \E S \in SquadsButForBudget : TotalPrice(S, opt_players) > constraints.budget
    /\ \E S \in SquadsButForBudget : TotalPrice(S, opt_players) <= constraints.budget

\* C8: when squad_size = 15 every returned squad has exactly 15 players:
\* 2 goalkeepers, 5 defenders, 5 midfielders and 3 forwards
C8_FullSquadQuota ==
    (Returned /\ constraints.squad_size = 15) =>
        /\ Cardinality(squad_result.squad) = 15
        /\ CountAt(squad_result.squad, GOALKEEPER) = 2
        /\ CountAt(squad_result.squad, DEFENDER) = 5
        /\ CountAt(squad_result.squad, MIDFIELDER) = 5
        /\ CountAt(squad_result.squad, FORWARD) = 3

\* a squad of 15 returned from a pool that holds more of a position than its quota
C8_Witness ==
    /\ Returned
    /\ constraints.squad_size = 15
    /\ Cardinality(squad_result.squad) = 15
    /\ \E position \in Positions :
          Cardinality(ByPosition(opt_players, position)) > SquadQuota(position)

\* C9: every result has exactly starting_xi_size starters, exactly one of them
\* a goalkeeper; under a catalog formation d-m-f the starters are exactly d
\* defenders, m midfielders and f forwards, and without a formation the counts
\* lie in 3..5, 2..5 and 1..3
C9_StartingLineup ==
    Returned =>
        /\ Cardinality(squad_result.starting_xi) = constraints.starting_xi_size
        /\ CountAt(squad_result.starting_xi, GOALKEEPER) = 1
        /\ constraints.formation \in DOMAIN FORMATION_CONSTRAINTS =>
              LET f == FORMATION_CONSTRAINTS[constraints.formation]
              IN  /\ CountAt(squad_result.starting_xi, DEFENDER) = f.defenders[1]
                  /\ f.defenders[1] = f.defenders[2]
                  /\ CountAt(squad_result.starting_xi, MIDFIELDER) = f.midfielders[1]
                  /\ f.midfielders[1] = f.midfielders[2]
                  /\ CountAt(squad_result.starting_xi, FORWARD) = f.forwards[1]
                  /\ f.forwards[1] = f.forwards[2]
        /\ constraints.formation = NoFormation =>
              /\ CountAt(squad_result.starting_xi, DEFENDER) \in 3..5
              /\ CountAt(squad_result.starting_xi, MIDFIELDER) \in 2..5
              /\ CountAt(squad_result.starting_xi, FORWARD) \in 1..3

\* a 4-4-2 asked of a pool whose best eleven has another shape, and returned
\* with 1/4/4/2 starters
C9_Witness ==
    /\ Returned
    /\ constraints.formation = "4-4-2"
    /\ constraints.squad_size = 15
    /\ squad_result.formation = <<4, 4, 2>>
    /\ CountAt(squad_result.starting_xi, GOALKEEPER) = 1
    /\ \E a \in OptimalAssignments(opt_players,
                                   [constraints EXCEPT !.formation = NoFormation]) :
          determine_formation(a.starting, opt_players) # <<4, 4, 2>>

\* the team ids of the pool
TeamIds == { opt_players[i].team_id : i \in DOMAIN opt_players }

\* squad members of team t
TeamCount(S, t) == Cardinality({ i \in S : opt_players[i].team_id = t })

\* C10: in every returned squad no team id occurs on more than
\* max_players_per_team squad members
C10_TeamCap ==
    Returned =>
        \A t \in TeamIds : TeamCount(squad_result.squad, t) <= constraints.max_players_per_team

\* a squad returned with a team at the cap, from a pool holding more of that team
C10_Witness ==
    /\ Returned
    /\ \E t \in TeamIds :
          /\ TeamCount(squad_result.squad, t) = constraints.max_players_per_team
          /\ TeamCount(DOMAIN opt_players, t) > constraints.max_players_per_team

\* C11: every result designates exactly one captain, the captain is one of the
\* starting XI, and every starter is a member of the squad
C11_CaptainAndLinking ==
    Returned =>
        /\ Cardinality(squad_result.captain_id) = 1
        /\ squad_result.captain_id \subseteq squad_result.starting_xi
        /\ squad_result.starting_xi \subseteq squad_result.squad

\* a result whose captain is a starter although a pool player left out of the
\* starting XI is worth more as captain, and whose squad is not the whole pool
C11_Witness ==
    /\ Returned
    /\ Cardinality(squad_result.captain_id) = 1
    /\ squad_result.squad # DOMAIN opt_players
    /\ squad_result.bench # {}
    /\ \E k \in squad_result.captain_id, j \in DOMAIN opt_players \ squad_result.starting_xi :
          CaptainCoefficient(opt_players[j]) > CaptainCoefficient(opt_players[k])

\* C12: for any excluded and required ids, also ids that no pool player has,
\* no excluded id is in the returned squad and every required id is in it
C12_ExcludedAndRequired ==
    Returned =>
        /\ constraints.excluded_players \cap squad_result.squad = {}
        /\ constraints.required_players \subseteq squad_result.squad

\* what the program does enforce: the ids that have a squad variable
C12_PoolIdsHonoured ==
    Returned =>
        /\ constraints.excluded_players \cap squad_result.squad = {}
        /\ (constraints.required_players \cap DOMAIN opt_players)
              \subseteq squad_result.squad

\* Scenario B answered: the excluded player, a starter of the free optimum, is
\* absent and the required player is present
C12_ScenarioB ==
    /\ Returned
    /\ constraints.excluded_players = {14}
    /\ constraints.required_players = {16}
    /\ {14, 16} \subseteq DOMAIN opt_players
    /\ 14 \notin squad_result.squad
    /\ 16 \in squad_result.squad

\* the returned squad, starting XI and captain meet every constraint the
\* program states, none relaxed
ResultMeetsEveryConstraint ==
    LET S == squad_result.squad
        T == squad_result.starting_xi
        K == squad_result.captain_id
    IN  /\ S \subseteq DOMAIN opt_players
        /\ Cardinality(S) = constraints.squad_size
        /\ TotalPrice(S, opt_players) <= constraints.budget
        /\ T \subseteq S
        /\ Cardinality(T) = constraints.starting_xi_size
        /\ K \subseteq T
        /\ Cardinality(K) = 1
        /\ constraints.squad_size = 15 =>
              \A position \in Positions : CountAt(S, position) = SquadQuota(position)
        /\ \A position \in Positions :
              /\ CountAt(T, position) >= StartingBounds(position, constraints)[1]
              /\ CountAt(T, position) <= StartingBounds(position, constraints)[2]
        /\ \A t \in TeamIds : TeamCount(S, t) <= constraints.max_players_per_team
        /\ constraints.excluded_players \cap S = {}
        /\ (constraints.required_players \cap DOMAIN opt_players) \subseteq S

\* C13: when no assignment satisfies all constraints optimize_squad ends in
\* an error and returns no squad, partial or otherwise; it never relaxes a
\* constraint to produce a result.  Every call ends either in the error,
\* carrying nothing else, or in a result that itself meets every constraint
\* - so a call that no assignment satisfies can only end in the error
C13_InfeasibleIsAnError ==
    opt_pc = "done" =>
        /\ ~Solvable(opt_players, constraints) => squad_result = [status |-> "error"]
        /\ \/ squad_result = [status |-> "error"]
           \/ /\ squad_result.status = "ok"
              /\ ResultMeetsEveryConstraint

\* Scenario C: a budget of 10.0 that the cheapest squad meeting the other
\* constraints exceeds, answered with the error
C13_Witness ==
    /\ opt_pc = "done"
    /\ squad_result = [status |-> "error"]
    /\ constraints.budget = 100
    /\ SquadsButForBudget # {}
    /\ \A S \in SquadsButForBudget : TotalPrice(S, opt_players) > constraints.budget

\* C14: constraints whose excluded and required ids share an id are rejected
\* with an error before a squad is produced, whether or not the shared id
\* belongs to a pool player
C14_SharedIdRejected ==
    (opt_pc = "done"
        /\ constraints.excluded_players \cap constraints.required_players # {}) =>
            squad_result = [status |-> "error"]

\* what the program does: only a shared id that has a squad variable makes
\* the program infeasible, and so ends in the error
C14_SharedPoolIdRejected ==
    (opt_pc = "done"
        /\ constraints.excluded_players \cap constraints.required_players
              \cap DOMAIN opt_players # {}) =>
            squad_result = [status |-> "error"]

\* predicted_points * start_probability of the pool's players
PoolExpectedValue == [i \in DOMAIN opt_players |-> ExpectedValue(opt_players[i])]

\* the sum over the returned starters of predicted * prob plus the returned
\* captain's predicted * prob
ReturnedObjective ==
    SumOver(PoolExpectedValue, squad_result.starting_xi)
        + SumOver(PoolExpectedValue, squad_result.captain_id)

\* C15: at risk_tolerance = 0.5 the returned squad, starters and captain
\* attain the maximum of (sum over starters of predicted * prob) + (captain's
\* predicted * prob) over every assignment that satisfies the budget, size,
\* quota, formation, team-cap, linking and exclusion/requirement constraints:
\* the result is such an assignment and none of them, enumerated one by one,
\* scores more
C15_OptimalAtNeutralRisk ==
    (Returned /\ constraints.risk_tolerance = 5) =>
        /\ ResultMeetsEveryConstraint
        /\ LET value == PoolExpectedValue
               returned == ReturnedObjective
           IN  \A S \in FeasibleSquads(opt_players, constraints) :
               \A n \in StartingShapes(constraints) :
               \A g \in StartingPositionSets(GOALKEEPER, S, opt_players, n[1]) :
               \A d \in StartingPositionSets(DEFENDER, S, opt_players, n[2]) :
               \A m \in StartingPositionSets(MIDFIELDER, S, opt_players, n[3]) :
               \A f \in StartingPositionSets(FORWARD, S, opt_players, n[4]) :
                  LET starters == SumOver(value, g) + SumOver(value, d)
                                    + SumOver(value, m) + SumOver(value, f)
                  IN  \A k \in g \cup d \cup m \cup f :
                         starters + value[k] <= returned

\* an optimum that is not the only choice: another squad with its own
\* starting XI and captain satisfies every constraint and scores less
C15_Witness ==
    /\ Returned
    /\ constraints.risk_tolerance = 5
    /\ \E S \in FeasibleSquads(opt_players, constraints) :
          /\ S # squad_result.squad
          /\ \E T \in FeasibleStartings(S, opt_players, constraints) :
                \E k \in T :
                   SumOver(PoolExpectedValue, T) + PoolExpectedValue[k] < ReturnedObjective

(***************************************************************************)
(* SquadOptimizer.find_best_formation as a state machine: one step per     *)
(* pass of the loop over the catalog, then the return                      *)
(***************************************************************************)
\* the roster with defenders 8 and 16 predicted 2.2 and 2.5 points, which
\* makes the fourth defender worth what the fourth midfielder is (2.2 expected
\* points), so that 3-4-3 and 4-3-3 tie at the top
TieRosterPlayer(i) ==
    IF i = 8 THEN [RosterPlayer(i) EXCEPT !.predicted_points = 22]
    ELSE IF i = 16 THEN [RosterPlayer(i) EXCEPT !.predicted_points = 25]
    ELSE RosterPlayer(i)

\* the roster with no points predicted for anybody
ZeroRosterPlayer(i) == [RosterPlayer(i) EXCEPT !.predicted_points = 0]

SearchRosters == {"plain", "tie", "zero"}
SearchBudgetChoices == {100, 1000}

\* players of the pool beyond the squad size: the pool is the squad chosen
\* before, or has one player to spare
SearchSpareChoices == {0, 1}

SearchPool(roster, n) ==
    [i \in 1..n |-> IF roster = "tie" THEN TieRosterPlayer(i)
                    ELSE IF roster = "zero" THEN ZeroRosterPlayer(i)
                    ELSE RosterPlayer(i)]

SearchInit ==
    /\ \E roster \in SearchRosters, size \in SquadSizeChoices, extra \in SearchSpareChoices :
          /\ roster = "zero" => size = 11
          /\ opt_players = SearchPool(roster, size + extra)
          /\ \E budget \in SearchBudgetChoices :
                constraints =
                    [budget |-> budget, squad_size |-> size, starting_xi_size |-> 11,
                     max_players_per_team |-> 15, formation |-> NoFormation,
                     excluded_players |-> {}, required_players |-> {},
                     risk_tolerance |-> 5]
    /\ squad_result = <<>>
    /\ opt_pc = "idle"
    /\ formation_index = 0
    /\ best_formation = {}
    /\ best_points = 0
    /\ best_result = <<>>
    /\ formation_results = <<>>
    /\ search_return = <<>>
    /\ search_pc = "loop"
    /\ PlannerIdle
    /\ CaptainIdle

\* the OptimizationConstraints built for one formation of the catalog
formation_constraints(formation_name) ==
    [budget |-> constraints.budget,
     squad_size |-> constraints.squad_size,
     starting_xi_size |-> constraints.starting_xi_size,
     max_players_per_team |-> constraints.max_players_per_team,
     formation |-> formation_name,
     excluded_players |-> constraints.excluded_players,
     required_players |-> constraints.required_players,
     risk_tolerance |-> constraints.risk_tolerance]

\* (mutant of AfterFailure: the failure ends the loop)
AfterFailureBreak(index) == Len(FORMATION_NAMES)

\* `continue` in the except branch: on to the next formation
AfterFailure(index) == index + 1

\* one pass whose optimize_squad returns: the result is recorded and compared
FormationSolved ==
    /\ search_pc = "loop"
    /\ formation_index < Len(FORMATION_NAMES)
    /\ LET formation_name == FORMATION_NAMES[formation_index + 1]
       IN  \E a \in OptimalAssignments(opt_players, formation_constraints(formation_name)) :
              LET result == extract_solution(opt_players, a,
                                             formation_constraints(formation_name))
              IN  /\ formation_results' = (formation_name :> result) @@ formation_results
                  /\ IF result.predicted_points > best_points
                     THEN /\ best_points' = result.predicted_points
                          /\ best_formation' = {formation_name}
                          /\ best_result' = result
                     ELSE UNCHANGED <<best_points, best_formation, best_result>>
    /\ formation_index' = formation_index + 1
    /\ UNCHANGED <<search_return, search_pc>>
    /\ UNCHANGED <<planner_vars, optimizer_vars, captain_vars>>

\* one pass whose optimize_squad raises: logged, and the loop continues
FormationFailed ==
    /\ search_pc = "loop"
    /\ formation_index < Len(FORMATION_NAMES)
    /\ ~Solvable(opt_players, formation_constraints(FORMATION_NAMES[formation_index + 1]))
    /\ formation_index' = AfterFailure(formation_index)
    /\ UNCHANGED <<best_formation, best_points, best_result, formation_results,
                   search_return, search_pc>>
    /\ UNCHANGED <<planner_vars, optimizer_vars, captain_vars>>

\* after the loop: the returned dict
SearchReturn ==
    /\ search_pc = "loop"
    /\ formation_index = Len(FORMATION_NAMES)
    /\ search_return' = [best_formation |-> best_formation,
                         best_result |-> best_result,
                         all_formations |-> formation_results]
    /\ search_pc' = "done"
    /\ UNCHANGED <<formation_index, best_formation, best_points, best_result,
                   formation_results>>
    /\ UNCHANGED <<planner_vars, optimizer_vars, captain_vars>>

SearchNext == FormationSolved \/ FormationFailed \/ SearchReturn

SpecSearch == SearchInit /\ [][SearchNext]_vars

(***************************************************************************)
(* Properties of find_best_formation                                       *)
(***************************************************************************)
\* the formations among the first n of the catalog whose optimisation succeeds
SolvableAmong(n) ==
    {FORMATION_NAMES[k] : k \in {j \in 1..n :
        Solvable(opt_players, formation_constraints(FORMATION_NAMES[j]))}}

\* C16: a formation whose optimisation fails never aborts the search: after
\* every pass the recorded formations are exactly those, among the ones
\* tried so far, whose optimisation succeeded (a failed one has no entry),
\* and the search returns only after all of the catalog was tried, with
\* exactly the recorded results, also when none succeeded
C16_FailuresAreSkipped ==
    search_pc # "idle" =>
        /\ DOMAIN formation_results = SolvableAmong(formation_index)
        /\ search_pc = "done" =>
              /\ formation_index = Len(FORMATION_NAMES)
              /\ search_return.all_formations = formation_results
              /\ DOMAIN search_return.all_formations = SolvableAmong(Len(FORMATION_NAMES))

\* a search that returned after a formation failed and a later one succeeded
C16_Witness ==
    /\ search_pc = "done"
    /\ \E j, k \in 1..Len(FORMATION_NAMES) :
          /\ j < k
          /\ FORMATION_NAMES[j] \notin DOMAIN search_return.all_formations
          /\ FORMATION_NAMES[k] \in DOMAIN search_return.all_formations

\* a search that returned although every formation failed
C16_EveryFormationFailed ==
    /\ search_pc = "done"
    /\ DOMAIN search_return.all_formations = {}
    /\ search_return.best_formation = {}

\* the place of a formation in the catalog
CatalogIndex(formation_name) ==
    CHOOSE k \in 1..Len(FORMATION_NAMES) : FORMATION_NAMES[k] = formation_name

\* f comes before g by predicted points, then lower total cost, then catalog
\* order
RanksBefore(results, f, g) ==
    \/ results[f].predicted_points > results[g].predicted_points
    \/ /\ results[f].predicted_points = results[g].predicted_points
       /\ results[f].total_cost < results[g].total_cost
    \/ /\ results[f].predicted_points = results[g].predicted_points
       /\ results[f].total_cost = results[g].total_cost
       /\ CatalogIndex(f) < CatalogIndex(g)

\* C17: the best formation returned is the one with the highest predicted
\* points among the formations that succeeded, a tie going to the lower total
\* cost and then to catalog order
C17_BestFormationChoice ==
    (search_pc = "done" /\ DOMAIN search_return.all_formations # {}) =>
        \E f \in DOMAIN search_return.all_formations :
            /\ search_return.best_formation = {f}
            /\ search_return.best_result = search_return.all_formations[f]
            /\ \A g \in DOMAIN search_return.all_formations \ {f} :
                  RanksBefore(search_return.all_formations, f, g)

\* what the loop does when some result has points above 0: the highest
\* predicted points, a tie going to catalog order whatever the costs
C17_FirstOfTheHighest ==
    (search_pc = "done"
        /\ \E h \in DOMAIN search_return.all_formations :
              search_return.all_formations[h].predicted_points > 0) =>
        \E f \in DOMAIN search_return.all_formations :
            /\ search_return.best_formation = {f}
            /\ search_return.best_result = search_return.all_formations[f]
            /\ \A g \in DOMAIN search_return.all_formations \ {f} :
                  \/ search_return.all_formations[f].predicted_points
                        > search_return.all_formations[g].predicted_points
                  \/ /\ search_return.all_formations[f].predicted_points
                           = search_return.all_formations[g].predicted_points
                     /\ CatalogIndex(f) < CatalogIndex(g)

\* a returned search whose two highest formations tie on points and differ in
\* cost
C17_TieWithCosts ==
    /\ search_pc = "done"
    /\ \E f, g \in DOMAIN search_return.all_formations :
          /\ search_return.best_formation = {f}
          /\ search_return.all_formations[f].predicted_points
                = search_return.all_formations[g].predicted_points
          /\ search_return.all_formations[g].total_cost
                < search_return.all_formations[f].total_cost

(***************************************************************************)
(* SquadOptimizer.optimize_captain_choice                                  *)
(***************************************************************************)
NCaptainPool == 7

\* the pool of the captain calls: player i has id i; predicted points in
\* tenths, start probability in tenths, variance in hundredths.  Players 1
\* and 2 differ in variance only, by less than the rounding of the result.
CaptainPoolPlayer(i) ==
    LET k == ((i - 1) % 8) + 1
    IN  [position |-> RosterPosition(i),
         team_id |-> ((i - 1) % 5) + 1,
         price |-> 40 + 5 * ((3 * i) % 7),
         predicted_points |-> <<35, 35, 70, 50, 30, 65, 45, 25>>[k],
         start_probability |-> <<10, 10, 4, 8, 10, 4, 8, 10>>[k],
         variance |-> <<40, 20, 10, 30, 0, 60, 20, 10>>[k]]

\* the squad id lists of the calls: any ids of the pool, with or without an
\* id no pool player has
CaptainSquadChoices == SUBSET ((1..NCaptainPool) \cup {OutsideId})

CaptainInit ==
    /\ captain_players = [i \in 1..NCaptainPool |-> CaptainPoolPlayer(i)]
    /\ captain_squad \in CaptainSquadChoices
    /\ captain_return = <<>>
    /\ captain_pc = "call"
    /\ opt_players = <<>>
    /\ constraints = <<>>
    /\ squad_result = <<>>
    /\ opt_pc = "idle"
    /\ PlannerIdle
    /\ SearchIdle

\* [p for p in players if p.id in current_squad], as the ids in pool order
squad_players(players, squad) ==
    SelectSeq([i \in 1..Len(players) |-> i], LAMBDA i : i \in squad)

\* predicted_points * start_probability * 2 (hundredths)
expected_points(p) == p.predicted_points * p.start_probability * 2

\* expected_points - variance * 0.1 (thousandths)
adjusted_points(p) == 10 * expected_points(p) - p.variance

\* round(x, 1) on a value in thousandths: the nearest tenth, a tie to the even
\* tenth, in hundredths
Round1OfThousandths(x) ==
    LET r == x % 100
        lo == (x - r) \div 10
    IN  IF r < 50 THEN lo
        ELSE IF r > 50 THEN lo + 10
        ELSE IF (lo \div 10) % 2 = 0 THEN lo ELSE lo + 10

\* the dict appended for the player with id i
captain_option(i, p) ==
    [player_id |-> i,
     position |-> p.position,
     expected_points |-> Round1(expected_points(p)),
     risk_adjusted_points |-> Round1OfThousandths(adjusted_points(p)),
     start_probability |-> p.start_probability,
     base_points |-> p.predicted_points,
     variance |-> p.variance]

\* x put into a list already sorted: after every entry whose key is not lower
InsertByKey(sorted, x) ==
    LET k == Cardinality({ j \in 1..Len(sorted) :
                  sorted[j].risk_adjusted_points >= x.risk_adjusted_points })
    IN  SubSeq(sorted, 1, k) \o <<x>> \o SubSeq(sorted, k + 1, Len(sorted))

RECURSIVE SortByRiskAdjusted(_)
\* list.sort(key = risk_adjusted_points, reverse = True): descending, entries
\* of equal key in their original order
SortByRiskAdjusted(options) ==
    IF options = <<>> THEN <<>>
    ELSE InsertByKey(SortByRiskAdjusted(SubSeq(options, 1, Len(options) - 1)),
                     options[Len(options)])

\* captain_options after the sort
captain_options(players, squad) ==
    LET ids == squad_players(players, squad)
    IN  SortByRiskAdjusted([k \in 1..Len(ids) |-> captain_option(ids[k], players[ids[k]])])

\* options[:5]
FirstFive(options) ==
    SubSeq(options, 1, IF Len(options) < 5 THEN Len(options) ELSE 5)

\* the call with some squad player in the pool
CaptainRanked ==
    /\ captain_pc = "call"
    /\ squad_players(captain_players, captain_squad) # <<>>
    /\ LET options == captain_options(captain_players, captain_squad)
       IN  captain_return' = [recommended_captain |-> options[1],
                              top_options |-> FirstFive(options),
                              all_options |-> options]
    /\ captain_pc' = "done"
    /\ UNCHANGED <<captain_players, captain_squad>>
    /\ UNCHANGED <<planner_vars, optimizer_vars, search_vars>>

\* the call with no squad player in the pool: a dict with an error text is
\* returned
CaptainNoPlayers ==
    /\ captain_pc = "call"
    /\ squad_players(captain_players, captain_squad) = <<>>
    /\ captain_return' = [error |-> "No players in current squad"]
    /\ captain_pc' = "done"
    /\ UNCHANGED <<captain_players, captain_squad>>
    /\ UNCHANGED <<planner_vars, optimizer_vars, search_vars>>

CaptainNext == CaptainRanked \/ CaptainNoPlayers

SpecCaptain == CaptainInit /\ [][CaptainNext]_vars

(***************************************************************************)
(* Properties of optimize_captain_choice                                   *)
(***************************************************************************)
\* the call returned a ranking
Ranked == captain_pc = "done" /\ "all_options" \in DOMAIN captain_return

\* the ranking holds exactly the pool players of the squad, each once, the
\* recommended captain is its first entry and the top options its first
\* min(5, n) entries
RankingShape ==
    LET all == captain_return.all_options
        n == Len(all)
    IN  /\ { all[k].player_id : k \in 1..n }
              = { i \in DOMAIN captain_players : i \in captain_squad }
        /\ n = Cardinality({ i \in DOMAIN captain_players : i \in captain_squad })
        /\ captain_return.recommended_captain = all[1]
        /\ captain_return.top_options = SubSeq(all, 1, IF n < 5 THEN n ELSE 5)

\* C18: the ranking holds exactly the pool players whose id is in the squad
\* ids, in non-increasing order of predicted * probability * 2 - variance *
\* 0.1; the recommended captain is its first entry and the top options are its
\* first min(5, n) entries
C18_RankingByRiskAdjustedValue ==
    Ranked =>
        /\ RankingShape
        /\ \A j, k \in 1..Len(captain_return.all_options) :
              j < k =>
                 adjusted_points(captain_players[captain_return.all_options[j].player_id])
                    >= adjusted_points(captain_players[captain_return.all_options[k].player_id])

\* what the sort does: non-increasing in the value rounded to one decimal,
\* entries of equal rounded value in pool order
C18_RankingByRoundedValue ==
    Ranked =>
        /\ RankingShape
        /\ \A j, k \in 1..Len(captain_return.all_options) :
              j < k =>
                 \/ captain_return.all_options[j].risk_adjusted_points
                       > captain_return.all_options[k].risk_adjusted_points
                 \/ /\ captain_return.all_options[j].risk_adjusted_points
                          = captain_return.all_options[k].risk_adjusted_points
                    /\ captain_return.all_options[j].player_id
                          < captain_return.all_options[k].player_id

\* a ranking of five whose recommended captain has a lower risk-adjusted
\* value than its second entry
C18_LowerValueRecommended ==
    /\ Ranked
    /\ Len(captain_return.all_options) = 5
    /\ adjusted_points(captain_players[captain_return.all_options[1].player_id])
          < adjusted_points(captain_players[captain_return.all_options[2].player_id])

\* C19: when no pool player has an id of the squad ids, the call fails (an
\* EmptyCandidateSetError-kind failure) and returns no value
C19_NoMatchFails ==
    (captain_pc = "done"
        /\ { i \in DOMAIN captain_players : i \in captain_squad } = {})
      => captain_return = <<>>

\* a call with squad ids none of which is in the pool, that returned
C19_NoMatchReturned ==
    /\ captain_pc = "done"
    /\ captain_squad = {OutsideId}
    /\ captain_return = [error |-> "No players in current squad"]

(***************************************************************************)
(* Properties of plan_transfers when candidate generation fails            *)
(***************************************************************************)
\* C20: a failure of candidate generation in one period does not end the
\* call: the period's plan has no transfers, the later periods are planned,
\* and the call returns a plan for every period of the horizon (transfers
\* keep positions, so the squad of the call decides for every period whether
\* its candidate generation fails)
C20_FailedPeriodIsSkipped ==
    /\ pc # "raised"
    /\ \A k \in 1..Len(gameweek_plans) :
          find_transfer_options_raises(current_squad, all_players)
             => gameweek_plans[k].transfers = <<>>
    /\ pc = "done" => Len(plan_result.gameweek_plans) = planning_horizon

\* a call that ended with the exception of its first period: no plan of any
\* period, nothing returned
C20_AbortedInFirstPeriod ==
    /\ pc = "raised"
    /\ planning_horizon > 1
    /\ week_offset = 0
    /\ gameweek_plans = <<>>
    /\ plan_result = <<>>

(***************************************************************************)
(* Properties of the chip analysis of plan_transfers                       *)
(***************************************************************************)
RECURSIVE SquadBefore(_)
\* the squad period k was planned from: the squad of the call after the
\* transfers of the periods before k were applied
SquadBefore(k) ==
    IF k = 1 THEN current_squad
    ELSE apply_transfers(SquadBefore(k - 1), gameweek_plans[k - 1].transfers)

\* new_squad of period k
SquadAfter(k) == apply_transfers(SquadBefore(k), gameweek_plans[k].transfers)

\* the largest predicted * probability of a squad's members (0 for no member)
BestCaptainValue(squad) ==
    IF squad = <<>> THEN 0 ELSE MaxExpected(squad, all_players)

\* the call returned and the chip was available
Advised(chip) == pc = "done" /\ chip \in DOMAIN plan_result.chip_recommendations

\* C21: with triple_captain available, the recommended period is a planned
\* period whose post-transfer squad has the highest best-captain expected
\* value (max over the squad of predicted * prob) of all planned periods, and
\* expected_benefit is that value
C21_TripleCaptainByBestCaptain ==
    Advised("triple_captain") =>
        LET strategy == plan_result.chip_recommendations["triple_captain"]
        IN  \E k \in Plans :
               /\ strategy.recommended_gameweek = {gameweek_plans[k].gameweek}
               /\ \A j \in Plans :
                     BestCaptainValue(SquadAfter(j)) <= BestCaptainValue(SquadAfter(k))
               /\ strategy.expected_benefit = BestCaptainValue(SquadAfter(k))

\* what the loop does: every period is worth the same 12.0 points, so the
\* first planned period is recommended with benefit 12.0
C21_FirstPeriodAtTwelve ==
    Advised("triple_captain") =>
        /\ plan_result.chip_recommendations["triple_captain"].recommended_gameweek
              = {current_gameweek}
        /\ plan_result.chip_recommendations["triple_captain"].expected_benefit
              = ExpectedCaptainPoints * PointUnit

\* a returned plan whose recommended period has a squad with a best captain
\* worth 6.32 points, and 12.0 given as the benefit
C21_PlaceholderBenefit ==
    /\ Advised("triple_captain")
    /\ BestCaptainValue(SquadAfter(1)) = 632
    /\ plan_result.chip_recommendations["triple_captain"].expected_benefit
          = 12 * PointUnit

RECURSIVE BottomSum(_, _)
\* the sum of predicted * probability over the n members of the set of ids
\* that have the least of it (over all of them if there are fewer)
BottomSum(ids, n) ==
    IF n = 0 \/ ids = {} THEN 0
    ELSE LET least == CHOOSE x \in ids :
                         \A y \in ids :
                            ExpectedValue(all_players[x]) <= ExpectedValue(all_players[y])
         IN  ExpectedValue(all_players[least]) + BottomSum(ids \ {least}, n - 1)

\* the expected points of the bottom 4 (bench) players of a squad
BenchValue(squad) == BottomSum(Ids(squad), 4)

\* C22: with bench_boost available, the recommended period is a planned
\* period whose squad has the highest sum of expected points over its bottom
\* 4 players of all planned periods
C22_BenchBoostByBenchValue ==
    Advised("bench_boost") =>
        \E k \in Plans :
           /\ plan_result.chip_recommendations["bench_boost"].recommended_gameweek
                 = {gameweek_plans[k].gameweek}
           /\ \A j \in Plans : BenchValue(SquadAfter(j)) <= BenchValue(SquadAfter(k))

\* what the code does: the gameweek two after the current one, benefit 8.0
C22_TwoWeeksAhead ==
    Advised("bench_boost") =>
        /\ plan_result.chip_recommendations["bench_boost"].recommended_gameweek
              = {current_gameweek + 2}
        /\ plan_result.chip_recommendations["bench_boost"].expected_benefit
              = 8 * PointUnit

\* a returned plan of three periods whose first period has the better bench,
\* with the third recommended
C22_WorseBenchRecommended ==
    /\ Advised("bench_boost")
    /\ Len(gameweek_plans) = 3
    /\ plan_result.chip_recommendations["bench_boost"].recommended_gameweek
          = {gameweek_plans[3].gameweek}
    /\ BenchValue(SquadAfter(3)) < BenchValue(SquadAfter(1))

\* the gameweeks plan_transfers planned
PlannedGameweeks == current_gameweek..(current_gameweek + planning_horizon - 1)

\* C28: every chip recommendation of a returned plan has recommended_gameweek
\* None or one of the planned gameweeks current_gameweek ..
\* current_gameweek + planning_horizon - 1, for every horizon from 1 up
C28_RecommendedWithinHorizon ==
    pc = "done" =>
        \A chip \in DOMAIN plan_result.chip_recommendations :
            plan_result.chip_recommendations[chip].recommended_gameweek
                \subseteq PlannedGameweeks

\* a returned plan of one period that recommends bench_boost for a gameweek
\* two after it
C28_BenchBoostBeyondHorizon ==
    /\ Advised("bench_boost")
    /\ planning_horizon = 1
    /\ plan_result.chip_recommendations["bench_boost"].recommended_gameweek
          = {current_gameweek + 2}

\* the triple_captain and free_hit recommendations stay within the horizon
C28_OtherChipsWithinHorizon ==
    pc = "done" =>
        \A chip \in DOMAIN plan_result.chip_recommendations \cap {"triple_captain", "free_hit"} :
            plan_result.chip_recommendations[chip].recommended_gameweek
                \subseteq PlannedGameweeks

(***************************************************************************)
(* Properties of candidate generation and selection                        *)
(***************************************************************************)
\* the period just planned: every plan of a call is the latest one in the
\* state that follows its period, and no later step changes it
LatestPlan ==
    IF pc = "plan" /\ gameweek_plans # <<>> THEN {Len(gameweek_plans)} ELSE {}

\* the candidates period k chose from
CandidatesOf(k) ==
    find_transfer_options(SquadBefore(k), all_players, gameweek_plans[k].gameweek)

\* C24: within one period's selected transfers no player id is player_out of
\* more than one transfer and no player id is player_in of more than one
C24_NoPlayerUsedTwice ==
    \A k \in Plans :
        \A i, j \in 1..Len(gameweek_plans[k].transfers) :
            i # j =>
               /\ gameweek_plans[k].transfers[i].player_out_id
                     # gameweek_plans[k].transfers[j].player_out_id
               /\ gameweek_plans[k].transfers[i].player_in_id
                     # gameweek_plans[k].transfers[j].player_in_id

\* a period with two transfers that passed over a candidate bringing in the
\* player the first transfer had brought in, for another squad member and
\* with a gain above the cost of a second transfer
C24_Witness ==
    \E k \in Plans :
        /\ Len(gameweek_plans[k].transfers) = 2
        /\ \E c \in 1..Len(CandidatesOf(k)) :
              /\ CandidatesOf(k)[c].player_in_id
                    = gameweek_plans[k].transfers[1].player_in_id
              /\ CandidatesOf(k)[c].player_out_id
                    \notin { gameweek_plans[k].transfers[i].player_out_id : i \in 1..2 }
              /\ CandidatesOf(k)[c].expected_gain > 4 * PointUnit

\* C25: the candidates of every period are considered in non-increasing order of
\* expected_gain, and the transfer accepted as number n (from 0) has an
\* expected_gain strictly above its marginal cost, 0 points if n <
\* free_transfers and 4 points otherwise; so no candidate whose gain does not
\* exceed the marginal cost is among the selected
C25_GainAboveMarginalCost ==
    \A k \in LatestPlan :
        LET candidates == CandidatesOf(k)
            transfers == gameweek_plans[k].transfers
        IN  /\ \A i \in 1..(Len(candidates) - 1) :
                  candidates[i].expected_gain >= candidates[i + 1].expected_gain
            /\ \A i \in 1..(Len(transfers) - 1) :
                  transfers[i].expected_gain >= transfers[i + 1].expected_gain
            /\ \A i \in 1..Len(transfers) :
                  transfers[i].expected_gain
                     > (IF i - 1 < gameweek_plans[k].free_transfers THEN 0 ELSE 4)
                          * PointUnit

\* a period with one free transfer taken and room for a second, that left out
\* a candidate of two unused players whose gain of 3.0 points is positive but
\* not above the 4 points a second transfer costs
C25_Witness ==
    \E k \in Plans :
        /\ Len(gameweek_plans[k].transfers) = 1
        /\ gameweek_plans[k].free_transfers = 1
        /\ max_transfers_per_week >= 2
        /\ \E c \in 1..Len(CandidatesOf(k)) :
              /\ CandidatesOf(k)[c].player_out_id
                    # gameweek_plans[k].transfers[1].player_out_id
              /\ CandidatesOf(k)[c].player_in_id
                    # gameweek_plans[k].transfers[1].player_in_id
              /\ CandidatesOf(k)[c].expected_gain = 300

\* the pairs (out, in) of a squad member and a pool player outside the squad
\* of the same position, each with predicted * prob (in) - predicted * prob
\* (out)
CandidatePairs(squad) ==
    { <<q[1], q[2],
        ExpectedValue(all_players[q[2]]) - ExpectedValue(all_players[q[1]])>> :
        q \in { r \in Ids(squad) \X (DOMAIN all_players \ Ids(squad)) :
                   all_players[r[2]].position = all_players[r[1]].position } }

\* C26: the candidate set of every period is exactly the pairs (out, in) with out
\* in the period's squad, in a pool player not in it and of out's position,
\* each once and with expected_gain = predicted * prob (in) - predicted * prob
\* (out); so every selected transfer swaps a squad member for a non-member
\* of the same position
C26_CandidateSet ==
    \A k \in LatestPlan :
        LET squad == SquadBefore(k)
            candidates == find_transfer_options(squad, all_players,
                                                gameweek_plans[k].gameweek)
            pairs == CandidatePairs(squad)
        IN  /\ { <<candidates[c].player_out_id, candidates[c].player_in_id,
                   candidates[c].expected_gain>> : c \in 1..Len(candidates) } = pairs
            /\ Len(candidates) = Cardinality(pairs)
            /\ \A i \in 1..Len(gameweek_plans[k].transfers) :
                  LET t == gameweek_plans[k].transfers[i]
                  IN  /\ t.player_out_id \in Ids(squad)
                      /\ t.player_in_id \in DOMAIN all_players \ Ids(squad)
                      /\ all_players[t.player_in_id].position
                            = all_players[t.player_out_id].position
                      /\ <<t.player_out_id, t.player_in_id, t.expected_gain>> \in pairs

\* a period that made a transfer while the pool held, outside the squad, a
\* player of another position worth more than the one brought in
C26_Witness ==
    \E k \in Plans :
        /\ gameweek_plans[k].transfers # <<>>
        /\ \E r \in DOMAIN all_players \ Ids(SquadBefore(k)) :
              LET t == gameweek_plans[k].transfers[1]
              IN  /\ all_players[r].position # all_players[t.player_out_id].position
                  /\ ExpectedValue(all_players[r])
                        > ExpectedValue(all_players[t.player_in_id])

(***************************************************************************)
(* plan_transfers on squads of full size and on pools that invite many     *)
(* transfers                                                               *)
(***************************************************************************)
LargePool == 14

\* the squads of these calls: the first 5 or the first 12 of the pool
LargeSquadChoices == {5, 12}

\* "churn": a weak squad (0.4 x 0.8) in a strong pool (7.9 x 0.8);
\* "settled": a strong squad whose first member has the highest prediction
\* and the lowest chance to start (8.3 x 0.4), in a weak pool
LargeVariants == {"churn", "settled"}

LargeTransferChoices == {0, 3, 4}

\* pool player i of a call with the first m players as the squad
LargePlayer(i, m, variant) ==
    LET profile ==
            IF variant = "churn"
            THEN (IF i <= m THEN <<4, 8>> ELSE <<79, 8>>)
            ELSE (IF i = 1 THEN <<83, 4>>
                  ELSE IF i <= m THEN <<79, 8>> ELSE <<4, 8>>)
    IN  [position |-> PositionOf(i), price |-> PriceOf(i),
         predicted_points |-> profile[1], start_probability |-> profile[2]]

LargeInit ==
    /\ \E m \in LargeSquadChoices, variant \in LargeVariants :
          /\ all_players = [i \in 1..LargePool |-> LargePlayer(i, m, variant)]
          /\ current_squad = [k \in 1..m |-> k]
    /\ planning_horizon \in 1..MaxHorizon
    /\ max_transfers_per_week \in LargeTransferChoices
    /\ available_chips \in ChipChoices
    /\ current_gameweek \in GameweekChoices
    /\ current_state = InitialState(current_squad, all_players, current_gameweek)
    /\ gameweek_plans = <<>>
    /\ week_offset = 0
    /\ plan_result = <<>>
    /\ pc = "plan"
    /\ opt_players = <<>>
    /\ constraints = <<>>
    /\ squad_result = <<>>
    /\ opt_pc = "idle"
    /\ SearchIdle
    /\ CaptainIdle

SpecLarge == LargeInit /\ [][Next]_vars

(***************************************************************************)
(* Properties of the wildcard advice and of the period score               *)
(***************************************************************************)
\* C23: with wildcard available, a period is recommended if and only if the
\* transfers of all planned periods together number more than 2 x
\* planning_horizon; when one is recommended expected_benefit is the sum of
\* the periods' transfer costs, and when none is the period is None and the
\* benefit 0
C23_WildcardOnChurn ==
    Advised("wildcard") =>
        LET strategy == plan_result.chip_recommendations["wildcard"]
        IN  IF TotalTransfers(gameweek_plans) > 2 * planning_horizon
            THEN /\ strategy.recommended_gameweek # {}
                 /\ strategy.expected_benefit
                       = SumTransferCosts(gameweek_plans) * PointUnit
            ELSE /\ strategy.recommended_gameweek = {}
                 /\ strategy.expected_benefit = 0

\* the "if and only if" alone
C23_ThresholdOnly ==
    Advised("wildcard") =>
        (plan_result.chip_recommendations["wildcard"].recommended_gameweek # {}
            <=> TotalTransfers(gameweek_plans) > 2 * planning_horizon)

\* a returned plan of two periods with wildcard recommended and a benefit
\* above the transfer costs of the plan
C23_BenefitAboveCosts ==
    /\ Advised("wildcard")
    /\ planning_horizon = 2
    /\ plan_result.chip_recommendations["wildcard"].recommended_gameweek # {}
    /\ plan_result.chip_recommendations["wildcard"].expected_benefit
          > SumTransferCosts(gameweek_plans) * PointUnit

RECURSIVE TopSum(_, _)
\* the sum of predicted * probability over the n members of the set of ids
\* that have the most of it (over all of them if there are fewer)
TopSum(ids, n) ==
    IF n = 0 \/ ids = {} THEN 0
    ELSE LET most == CHOOSE x \in ids :
                        \A y \in ids :
                           ExpectedValue(all_players[x]) >= ExpectedValue(all_players[y])
         IN  ExpectedValue(all_players[most]) + TopSum(ids \ {most}, n - 1)

\* C27: a period's expected_points is the sum of predicted * probability over
\* the 11 members of its squad with the highest predicted * probability (all
\* members if fewer than 11) plus once more the largest predicted *
\* probability among them
C27_TopElevenByExpectedValue ==
    \A k \in Plans :
        gameweek_plans[k].expected_points
           = TopSum(Ids(SquadAfter(k)), 11) + BestCaptainValue(SquadAfter(k))

\* a period with a squad of 12 whose score is below that of its 11 best
\* members by predicted * probability
C27_BestElevenMissed ==
    \E k \in Plans :
        /\ Len(SquadAfter(k)) = 12
        /\ gameweek_plans[k].expected_points
              < TopSum(Ids(SquadAfter(k)), 11) + BestCaptainValue(SquadAfter(k))

(***************************************************************************)
(* More properties of find_best_formation and optimize_squad               *)
(***************************************************************************)
\* C29: if the solve succeeded for at least one catalog formation, the
\* returned best_formation and best_result are not None and best_result is
\* the recorded result of best_formation, also when every successful result
\* has predicted_points 0
C29_BestOfTheSuccessful ==
    (search_pc = "done" /\ DOMAIN search_return.all_formations # {}) =>
        /\ search_return.best_formation # {}
        /\ search_return.best_result # <<>>
        /\ \E f \in DOMAIN search_return.all_formations :
              /\ search_return.best_formation = {f}
              /\ search_return.best_result = search_return.all_formations[f]

\* a returned search with a recorded result of 0 predicted points and no best
\* formation
C29_NoBestAmongZeroes ==
    /\ search_pc = "done"
    /\ \E f \in DOMAIN search_return.all_formations :
          search_return.all_formations[f].predicted_points = 0
    /\ search_return.best_formation = {}
    /\ search_return.best_result = <<>>

\* the claim for searches in which some successful result has points above 0
C29_WithPositivePoints ==
    (search_pc = "done"
        /\ \E f \in DOMAIN search_return.all_formations :
              search_return.all_formations[f].predicted_points > 0) =>
        \E f \in DOMAIN search_return.all_formations :
           /\ search_return.best_formation = {f}
           /\ search_return.best_result = search_return.all_formations[f]

\* C30: in every result of optimize_squad the captain is a starter whose
\* predicted * start_probability is the largest among the starters, and the
\* reported predicted_points is the sum of predicted * start_probability over
\* the starters plus the captain's once more, rounded to one decimal
C30_CaptainIsBestStarter ==
    Returned =>
        /\ \A cap \in squad_result.captain_id :
              /\ cap \in squad_result.starting_xi
              /\ \A k \in squad_result.starting_xi :
                    PoolExpectedValue[k] <= PoolExpectedValue[cap]
        /\ squad_result.captain_id # {}
        /\ squad_result.predicted_points = Round1(ReturnedObjective)

\* a result of a call away from the neutral risk tolerance, with a starter
\* worth less than the captain and a squad member left on the bench
C30_Witness ==
    /\ Returned
    /\ constraints.risk_tolerance # 5
    /\ squad_result.bench # {}
    /\ \E cap \in squad_result.captain_id, k \in squad_result.starting_xi :
          PoolExpectedValue[k] < PoolExpectedValue[cap]

====
